---- MODULE Spec2Model ----
(***************************************************************************)
(* A model of the CSV-to-JSON converter: the quote-aware tokenizer and the  *)
(* dot-path record mapper of csvService.js, the processCSV handler of the   *)
(* controller, and the batch insert of userService.js over the connection   *)
(* pool of database/connection.js.                                          *)
(*                                                                          *)
(* Text.  A string is a sequence of symbols.  A symbol is one character     *)
(* ("," "." "\"" " " "\r" "\n", a digit) or a run of letters that the code  *)
(* only ever compares as a whole ("name", "firstName", "age", ...).         *)
(*                                                                          *)
(* Values.  A JavaScript value is a tagged record:                          *)
(*    [t |-> "str", s |-> string]     a string                              *)
(*    [t |-> "num", n |-> Int, d |-> digits after the decimal point]        *)
(*    [t |-> "null"]                  null                                  *)
(*    [t |-> "obj", f |-> function from keys to values]   an object         *)
(***************************************************************************)
EXTENDS Integers, Sequences, FiniteSets, TLC

\* ------------------------------------------------------------------ bounds

\* Longest field value given to the tokenizer on its own.
MaxFieldLen == 4
\* Most data rows of a file that the whole pipeline processes.
MaxRecords == 2
\* processCSV requests started in one run.
MaxCalls == 1
\* Connections the pool hands out (the code allows up to 20, max: 20).
PoolSize == 2
\* Most lines of a file given to parseCSVFile on its own.
MaxLines == 3
\* Longest line given to the tokenizer on its own.
MaxLineLen == 5
\* Most columns of a row given to convertToJSON on its own.
MaxCols == 3
\* Longest value of a one-column row given to convertToJSON on its own.
MaxValueLen == 3
\* Most rows of a users table the report is asked over.
MaxRows == 2
\* Report and clear requests in one run.
MaxRequests == 2

\* ------------------------------------------------------------ text helpers

Quote == "\""
Comma == ","
Dot == "."
Space == " "
CR == "\r"
LF == "\n"

Digits == {"0", "1", "2", "3", "4", "5", "6", "7", "8", "9"}

DigitValue(c) ==
  CASE c = "0" -> 0 [] c = "1" -> 1 [] c = "2" -> 2 [] c = "3" -> 3
    [] c = "4" -> 4 [] c = "5" -> 5 [] c = "6" -> 6 [] c = "7" -> 7
    [] c = "8" -> 8 [] c = "9" -> 9

\* The characters String.prototype.trim removes.
IsSpace(c) == c \in {Space, CR, LF, "\t"}

RECURSIVE TrimStart(_)
TrimStart(s) ==
  IF s # <<>> /\ IsSpace(Head(s)) THEN TrimStart(Tail(s)) ELSE s

RECURSIVE TrimEnd(_)
TrimEnd(s) ==
  IF s # <<>> /\ IsSpace(s[Len(s)]) THEN TrimEnd(SubSeq(s, 1, Len(s) - 1)) ELSE s

\* String.prototype.trim
Trim(s) == TrimEnd(TrimStart(s))

\* Array.prototype.includes on an array of strings
Includes(arr, x) == \E k \in 1..Len(arr) : arr[k] = x

\* Array.prototype.slice(start, end), with JavaScript's negative indices;
\* start and end are 0-based, end exclusive.
Slice(arr, start, end) ==
  LET n == Len(arr)
      from == IF start < 0 THEN (IF n + start < 0 THEN 0 ELSE n + start)
              ELSE (IF start > n THEN n ELSE start)
      to == IF end < 0 THEN (IF n + end < 0 THEN 0 ELSE n + end)
            ELSE (IF end > n THEN n ELSE end)
  IN  IF to <= from THEN <<>> ELSE SubSeq(arr, from + 1, to)

\* ------------------------------------------------------------- csvService

\* The first position of a "\n" in content, 0 when there is none.
RECURSIVE IndexOfLF(_, _)
IndexOfLF(content, k) ==
  IF k > Len(content) THEN 0
  ELSE IF content[k] = LF THEN k
  ELSE IndexOfLF(content, k + 1)

\* splitLines: content.split(/\r?\n/).  A "\r" directly before the "\n" is
\* part of the separator; every other character stays in its line.
RECURSIVE splitLines(_)
splitLines(content) ==
  LET k == IndexOfLF(content, 1) IN
  IF k = 0 THEN <<content>>
  ELSE LET sepStart == IF k > 1 /\ content[k - 1] = CR THEN k - 1 ELSE k
       IN  <<SubSeq(content, 1, sepStart - 1)>>
             \o splitLines(SubSeq(content, k + 1, Len(content)))

\* Mutant: the tokenizer that ends a field at every comma, quoted or not.
RECURSIVE ParseLineFrom_EveryComma(_, _, _, _, _)
ParseLineFrom_EveryComma(line, i, result, current, inQuotes) ==
  IF i > Len(line) THEN Append(result, Trim(current))
  ELSE LET char == line[i] IN
    IF char = Quote THEN
      IF inQuotes /\ i + 1 <= Len(line) /\ line[i + 1] = Quote
      THEN ParseLineFrom_EveryComma(line, i + 2, result, Append(current, Quote), inQuotes)
      ELSE ParseLineFrom_EveryComma(line, i + 1, result, current, ~inQuotes)
    ELSE IF char = Comma
    THEN ParseLineFrom_EveryComma(line, i + 1, Append(result, Trim(current)), <<>>, inQuotes)
    ELSE ParseLineFrom_EveryComma(line, i + 1, result, Append(current, char), inQuotes)

\* The while loop of parseCSVLine from position i (1-based here), with the
\* fields pushed so far, the field being built and the inside-quotes flag.
RECURSIVE ParseLineFrom(_, _, _, _, _)
ParseLineFrom(line, i, result, current, inQuotes) ==
  IF i > Len(line) THEN Append(result, Trim(current))
  ELSE LET char == line[i] IN
    IF char = Quote THEN
      IF inQuotes /\ i + 1 <= Len(line) /\ line[i + 1] = Quote
      THEN ParseLineFrom(line, i + 2, result, Append(current, Quote), inQuotes)
      ELSE ParseLineFrom(line, i + 1, result, current, ~inQuotes)
    ELSE IF char = Comma /\ ~inQuotes
    THEN ParseLineFrom(line, i + 1, Append(result, Trim(current)), <<>>, inQuotes)
    ELSE ParseLineFrom(line, i + 1, result, Append(current, char), inQuotes)

\* Mutant: the tokenizer without the escaped-quote case; every quote toggles.
RECURSIVE ParseLineFrom_NoEscape(_, _, _, _, _)
ParseLineFrom_NoEscape(line, i, result, current, inQuotes) ==
  IF i > Len(line) THEN Append(result, Trim(current))
  ELSE LET char == line[i] IN
    IF char = Quote
    THEN ParseLineFrom_NoEscape(line, i + 1, result, current, ~inQuotes)
    ELSE IF char = Comma /\ ~inQuotes
    THEN ParseLineFrom_NoEscape(line, i + 1, Append(result, Trim(current)), <<>>, inQuotes)
    ELSE ParseLineFrom_NoEscape(line, i + 1, result, Append(current, char), inQuotes)

parseCSVLine_NoEscape(line) == ParseLineFrom_NoEscape(line, 1, <<>>, <<>>, FALSE)

parseCSVLine(line) == ParseLineFrom(line, 1, <<>>, <<>>, FALSE)

requiredHeaders ==
  << <<"name", Dot, "firstName">>, <<"name", Dot, "lastName">>, <<"age">> >>

\* Mutant: validateHeaders that forgets to require age.
missingHeaders_NoAge(headers) ==
  SelectSeq(SubSeq(requiredHeaders, 1, 2), LAMBDA h : ~Includes(headers, h))

\* validateHeaders: the required headers that headers does not include, in
\* the order of requiredHeaders; the function throws when there is one.
missingHeaders(headers) ==
  SelectSeq(requiredHeaders, LAMBDA h : ~Includes(headers, h))

\* ------------------------------------------------------------------ values

Str(s) == [t |-> "str", s |-> s]
Num(n, d) == [t |-> "num", n |-> n, d |-> d]
Null == [t |-> "null"]
Obj(f) == [t |-> "obj", f |-> f]
EmptyObj == Obj(<<>>)

IsDigits(s) == \A k \in 1..Len(s) : s[k] \in Digits

RECURSIVE DigitsValue(_)
DigitsValue(s) ==
  IF s = <<>> THEN 0
  ELSE 10 * DigitsValue(SubSeq(s, 1, Len(s) - 1)) + DigitValue(s[Len(s)])

RECURSIVE StripZeros(_)
StripZeros(s) ==
  IF s # <<>> /\ s[Len(s)] = "0" THEN StripZeros(SubSeq(s, 1, Len(s) - 1)) ELSE s

\* The positions of the dots of s.
DotsOf(s) == {k \in 1..Len(s) : s[k] = Dot}

\* Number(s) for a trimmed, non-empty s over the model's symbols: decimal
\* digits with at most one point ("25", "2.5", "2.", ".5"); anything else
\* is NaN, written [t |-> "nan"].
ToNumber(s) ==
  LET dots == DotsOf(s) IN
  IF dots = {} THEN
    IF IsDigits(s) THEN Num(DigitsValue(s), <<>>) ELSE [t |-> "nan"]
  ELSE IF Cardinality(dots) = 1 THEN
    LET k == CHOOSE k \in dots : TRUE
        whole == SubSeq(s, 1, k - 1)
        frac == SubSeq(s, k + 1, Len(s))
    IN  IF IsDigits(whole) /\ IsDigits(frac) /\ Len(s) > 1
        THEN Num(DigitsValue(whole), StripZeros(frac))
        ELSE [t |-> "nan"]
  ELSE [t |-> "nan"]

\* parseNumber: null for an empty or blank string, the number when Number()
\* yields one, and the string itself otherwise.
parseNumber(value) ==
  IF value = <<>> \/ Trim(value) = <<>> THEN Null
  ELSE LET num == ToNumber(Trim(value))
       IN  IF num.t = "nan" THEN Str(value) ELSE num

\* Lower-casing of the letter runs the regular expression reads.
Lower(c) ==
  CASE c = "AGE" -> "age" [] c = "Age" -> "age" [] c = "ID" -> "id"
    [] c = "Id" -> "id" [] c = "COUNT" -> "count" [] c = "Count" -> "count"
    [] OTHER -> c

\* Mutant: the suffix test without the i flag.
IsNumericHeader_CaseSensitive(header) ==
  \/ header = <<"age">>
  \/ /\ Len(header) >= 2
     /\ header[Len(header) - 1] = Dot
     /\ header[Len(header)] \in {"age", "id", "count"}

\* header === 'age' || /\.(age|id|count)$/i.test(header)
IsNumericHeader(header) ==
  \/ header = <<"age">>
  \/ /\ Len(header) >= 2
     /\ header[Len(header) - 1] = Dot
     /\ Lower(header[Len(header)]) \in {"age", "id", "count"}

\* path.split('.')
RECURSIVE SplitDots(_)
SplitDots(path) ==
  LET dots == DotsOf(path) IN
  IF dots = {} THEN <<path>>
  ELSE LET k == CHOOSE k \in dots : \A j \in dots : k <= j
       IN  <<SubSeq(path, 1, k - 1)>> \o SplitDots(SubSeq(path, k + 1, Len(path)))

\* Mutant: an assignment that leaves a key that is already there alone.
SetField_KeepOld(f, key, value) == f @@ (key :> value)

\* obj[key] = value on the fields of an object
SetField(f, key, value) == (key :> value) @@ f

\* Mutant: setNestedProperty that starts every intermediate key afresh.
RECURSIVE SetPath_AlwaysFresh(_, _, _)
SetPath_AlwaysFresh(obj, keys, value) ==
  IF Len(keys) = 1 THEN Obj(SetField(obj.f, keys[1], value))
  ELSE Obj(SetField(obj.f, keys[1], SetPath_AlwaysFresh(EmptyObj, Tail(keys), value)))

\* The loop of setNestedProperty: descend along keys, replacing whatever is
\* not an object by a fresh one, and assign the last key.
RECURSIVE SetPath(_, _, _)
SetPath(obj, keys, value) ==
  IF Len(keys) = 1 THEN Obj(SetField(obj.f, keys[1], value))
  ELSE LET key == keys[1]
           child == IF key \notin DOMAIN obj.f \/ obj.f[key].t # "obj"
                    THEN EmptyObj ELSE obj.f[key]
       IN  Obj(SetField(obj.f, key, SetPath(child, Tail(keys), value)))

setNestedProperty(obj, path, value) == SetPath(obj, SplitDots(path), value)

\* The value convertToJSON stores for one column.
Coerce(header, value) ==
  IF IsNumericHeader(header) THEN parseNumber(value) ELSE Str(value)

\* The for loop of convertToJSON from column i.
RECURSIVE ConvertFrom(_, _, _, _)
ConvertFrom(headers, values, i, result) ==
  IF i > Len(headers) THEN result
  ELSE ConvertFrom(headers, values, i + 1,
         setNestedProperty(result, headers[i], Coerce(headers[i], values[i])))

\* Mutant: convertToJSON that refuses a row only when it has too few values.
convertToJSON_Lenient(headers, values) ==
  IF Len(headers) > Len(values) THEN [ok |-> FALSE, error |-> "HeaderCountMismatch"]
  ELSE [ok |-> TRUE, value |-> ConvertFrom(headers, values, 1, EmptyObj)]

\* convertToJSON: [ok |-> FALSE] when it throws on the length mismatch.
convertToJSON(headers, values) ==
  IF Len(headers) # Len(values) THEN [ok |-> FALSE, error |-> "HeaderCountMismatch"]
  ELSE [ok |-> TRUE, value |-> ConvertFrom(headers, values, 1, EmptyObj)]

\* parseInt(s): an optional sign and the leading decimal digits of the
\* trimmed string; NaN ([nan |-> TRUE]) when there is no digit.  An unset environment
\* variable is the string <<"undefined">>, which parseInt reads as such.
RECURSIVE LeadingDigits(_)
LeadingDigits(s) ==
  IF s # <<>> /\ Head(s) \in Digits THEN <<Head(s)>> \o LeadingDigits(Tail(s)) ELSE <<>>

parseInt(s) ==
  LET t == TrimStart(s)
      neg == t # <<>> /\ Head(t) = "-"
      body == IF t # <<>> /\ Head(t) \in {"-", "+"} THEN Tail(t) ELSE t
      ds == LeadingDigits(body)
  IN  IF ds = <<>> THEN [nan |-> TRUE, v |-> 0]
      ELSE [nan |-> FALSE, v |-> IF neg THEN 0 - DigitsValue(ds) ELSE DigitsValue(ds)]

\* Mutant: a default that replaces NaN only.
OrDefault_KeepZero(x, dflt) == IF x.nan THEN dflt ELSE x.v

\* x || dflt for a number x: NaN and 0 are falsy.
OrDefault(x, dflt) == IF x.nan \/ x.v = 0 THEN dflt ELSE x.v

\* -------------------------------------------------------------- the state

VARIABLES
  file,           \* the file at csvFilePath: [stat, isFile, size, content]
  env,            \* process.env: [BATCH_SIZE, MAX_FILE_SIZE_MB]
  pc,             \* where the processCSV handler stands
  callNo,         \* the number of processCSV requests started
  lines,          \* parseCSVFile: lines
  headers,        \* parseCSVFile: headers
  users,          \* parseCSVFile: users, then the argument of batchInsertUsers
  li,             \* parseCSVFile: the loop index i (1-based)
  tokenized,      \* history: data lines handed to parseCSVLine by this call
  table,          \* the committed rows of the users table
  conns,          \* per pool connection: [tx, ins, del]
  everCommitted,  \* history: every row that was ever committed
  bi,             \* batchInsertUsers: the loop index i (0-based, as in the code)
  insertedCount,  \* batchInsertUsers: insertedCount
  caught,         \* batchInsertUsers: the error its catch block received
  stmts,          \* history: the statements this call issued, in order
  response,       \* what the handler answered
  fnArgs,         \* the argument of a function called on its own
  fnRet           \* and what it returned

vars ==
  <<file, env, pc, callNo, lines, headers, users, li, tokenized, table, conns,
    everCommitted, bi, insertedCount, caught, stmts, response, fnArgs, fnRet>>

parseVars == <<lines, headers, users, li, tokenized>>
dbVars == <<table, conns, everCommitted>>
batchVars == <<bi, insertedCount, caught, stmts>>
fnVars == <<fnArgs, fnRet>>

NoError == [kind |-> "none"]
Err(kind, detail) == [kind |-> kind, detail |-> detail]
NoResponse == [status |-> "none"]

\* next(error): the handler's catch block hands the error on.
Failure(error) == [status |-> "error", error |-> error]

\* ------------------------------------------------------------ userService

\* JSON.stringify(v), kept as the value it serialises.
Stringify(v) == [t |-> "json", v |-> v]

\* obj[key], [t |-> "undefined"] when obj has no such property (or is not
\* an object at all).
Undefined == [t |-> "undefined"]
Get(obj, key) ==
  IF obj.t = "obj" /\ key \in DOMAIN obj.f THEN obj.f[key] ELSE Undefined

\* JavaScript truthiness of a value.
Truthy(v) ==
  CASE v.t = "str" -> v.s # <<>>
    [] v.t = "num" -> ~(v.n = 0 /\ v.d = <<>>)
    [] v.t = "obj" -> TRUE
    [] OTHER -> FALSE

DigitSym(k) == CHOOSE c \in Digits : DigitValue(c) = k

RECURSIVE NatToString(_)
NatToString(n) ==
  IF n < 10 THEN <<DigitSym(n)>> ELSE NatToString(n \div 10) \o <<DigitSym(n % 10)>>

\* String(v) as a template literal takes it.
ToStr(v) ==
  CASE v.t = "str" -> v.s
    [] v.t = "num" -> NatToString(v.n) \o (IF v.d = <<>> THEN <<>> ELSE <<Dot>> \o v.d)
    [] v.t = "obj" -> <<"[object Object]">>
    [] OTHER -> <<v.t>>

\* The object without the given keys (the three delete statements).
Without(obj, keys) ==
  Obj([k \in DOMAIN obj.f \ keys |-> obj.f[k]])

\* prepareUserData(user): the four bound parameters of one row.
prepareUserData(user) ==
  LET fn == Get(Get(user, <<"name">>), <<"firstName">>)
      ln == Get(Get(user, <<"name">>), <<"lastName">>)
      firstName == IF Truthy(fn) THEN ToStr(fn) ELSE <<>>
      lastName == IF Truthy(ln) THEN ToStr(ln) ELSE <<>>
      a == Get(user, <<"age">>)
      addr == Get(user, <<"address">>)
      additionalInfo == Without(user, {<<"name">>, <<"age">>, <<"address">>})
  IN  [name |-> Trim(firstName \o <<Space>> \o lastName),
       age |-> IF Truthy(a) THEN a ELSE Num(0, <<>>),
       address |-> IF Truthy(addr) THEN Stringify(addr) ELSE Null,
       additionalInfo |-> IF DOMAIN additionalInfo.f # {}
                          THEN Stringify(additionalInfo) ELSE Null]

\* The row that record k of this call's users becomes in the users table.
RowOf(k) == [call |-> callNo, idx |-> k, data |-> prepareUserData(users[k])]

\* Mutant: a slice that ends one record early.
BatchIndices_OffByOne(i, size) ==
  Slice([k \in 1..Len(users) |-> k], i, i + size - 1)

\* The 1-based positions of users.slice(i, i + batchSize).
BatchIndices(i, size) ==
  Slice([k \in 1..Len(users) |-> k], i, i + size)

\* const batchSize = parseInt(process.env.BATCH_SIZE) || 1000
DefaultBatchSize == 1000
batchSize == OrDefault(parseInt(env.BATCH_SIZE), DefaultBatchSize)

\* -------------------------------------------------- database/connection

Conns == 1..PoolSize

\* A pool connection with no transaction open.
FreshConn == [tx |-> "idle", ins |-> {}, del |-> {}]

\* The rows a statement on connection c sees.
Visible(c) == (table \ conns[c].del) \cup conns[c].ins

\* What the schema accepts of a multi-row INSERT: at least one row (an empty
\* VALUES list is a syntax error) and an integer for the age column.
ValidInsert(rows) ==
  /\ rows # {}
  /\ \A r \in rows : r.data.age.t = "num" /\ r.data.age.d = <<>>

Res(ok, rowCount, tbl, conn, committed) ==
  [ok |-> ok, rowCount |-> rowCount, table |-> tbl, conn |-> conn,
   committed |-> committed]

\* this.pool.query(text, params) served by connection c.  The pool gives
\* each call whichever client it has; every client keeps its own
\* transaction state between calls.  inject: the statement fails for a
\* reason of the environment (for BEGIN, COMMIT and ROLLBACK the connection
\* is lost and the server discards its transaction; for the others the
\* statement raises an error, which leaves an open transaction failed: what
\* it had written is gone, and it accepts only COMMIT or ROLLBACK, both of
\* which roll it back).
Exec(c, kind, rows, inject) ==
  LET cn == conns[c]
      failedStmt == Res(FALSE, 0, table,
                        IF cn.tx = "open" THEN [FreshConn EXCEPT !.tx = "failed"] ELSE cn, {})
  IN
  CASE kind = "BEGIN" ->
         IF inject THEN Res(FALSE, 0, table, FreshConn, {})
         ELSE IF cn.tx = "failed" THEN Res(FALSE, 0, table, cn, {})
         ELSE Res(TRUE, 0, table, [cn EXCEPT !.tx = "open"], {})
    [] kind = "COMMIT" ->
         IF inject THEN Res(FALSE, 0, table, FreshConn, {})
         ELSE IF cn.tx = "open"
              THEN Res(TRUE, 0, (table \ cn.del) \cup cn.ins, FreshConn, cn.ins)
              ELSE Res(TRUE, 0, table, FreshConn, {})
    [] kind = "ROLLBACK" ->
         IF inject THEN Res(FALSE, 0, table, FreshConn, {})
         ELSE Res(TRUE, 0, table, FreshConn, {})
    [] kind = "INSERT" ->
         IF inject \/ cn.tx = "failed" \/ ~ValidInsert(rows) THEN failedStmt
         ELSE IF cn.tx = "open"
              THEN Res(TRUE, Cardinality(rows), table,
                       [cn EXCEPT !.ins = cn.ins \cup rows], {})
              ELSE Res(TRUE, Cardinality(rows), table \cup rows, cn, rows)
    [] kind = "DELETE" ->
         IF inject \/ cn.tx = "failed" THEN failedStmt
         ELSE IF cn.tx = "open"
              THEN Res(TRUE, Cardinality(Visible(c)), table,
                       [cn EXCEPT !.ins = {}, !.del = cn.del \cup table], {})
              ELSE Res(TRUE, Cardinality(table), {}, cn, {})
    [] kind = "SELECT" ->
         IF inject \/ cn.tx = "failed" THEN failedStmt
         ELSE Res(TRUE, 0, table, cn, {})

\* The database after the statement whose outcome is r ran on connection c.
Ran(c, r) ==
  /\ table' = r.table
  /\ conns' = [conns EXCEPT ![c] = r.conn]
  /\ everCommitted' = everCommitted \cup r.committed

\* The error a failed statement throws: pg's error, which names nothing of
\* the caller; the model tells errors apart by the statement that raised it.
DbError(kind) == Err("db", [stmt |-> kind, at |-> Len(stmts) + 1])

Logged(kind, c, idxs, ok) ==
  Append(stmts, [kind |-> kind, conn |-> c, rows |-> idxs, ok |-> ok])

\* idleTimeoutMillis: the pool closes a client that stayed idle, and the
\* server rolls back whatever transaction it had open.
IdleTimeout(c) ==
  /\ conns[c] # FreshConn
  /\ conns' = [conns EXCEPT ![c] = FreshConn]
  /\ UNCHANGED <<file, env, pc, callNo, parseVars, table, everCommitted,
                 batchVars, response, fnVars>>

\* ------------------------------------------------- csvService.parseCSVFile

\* validateFile: const maxSizeMB = parseInt(process.env.MAX_FILE_SIZE_MB) || 100
DefaultMaxSizeMB == 100
BytesPerMB == 1048576
maxSizeBytes == OrDefault(parseInt(env.MAX_FILE_SIZE_MB), DefaultMaxSizeMB) * BytesPerMB

\* validateFile(filePath): the error it throws, NoError when it returns.
\* fs.stat's ENOENT is replaced by a new Error; any other error of fs.stat
\* is rethrown as it is.
validateFile(f) ==
  IF f.stat = "ENOENT" THEN Err("FileNotFound", <<>>)
  ELSE IF f.stat # "ok" THEN Err("fs", f.stat)
  ELSE IF ~f.isFile THEN Err("NotAFile", <<>>)
  ELSE IF f.size > maxSizeBytes THEN Err("FileTooLarge", <<>>)
  ELSE NoError

\* The handler answers and is done.
Answer(r) == response' = r /\ pc' = "idle"

\* processCSV is entered: validateRequest has passed the POST /api/csv/process
\* request on.
StartProcess ==
  /\ pc = "idle"
  /\ callNo < MaxCalls
  /\ callNo' = callNo + 1
  /\ pc' = "validateFile"
  /\ lines' = <<>> /\ headers' = <<>> /\ users' = <<>> /\ li' = 0 /\ tokenized' = 0
  /\ bi' = 0 /\ insertedCount' = 0 /\ caught' = NoError /\ stmts' = <<>>
  /\ response' = NoResponse
  /\ UNCHANGED <<file, env, dbVars, fnVars>>

\* await this.validateFile(filePath)
ValidateFile ==
  /\ pc = "validateFile"
  /\ LET e == validateFile(file) IN
       IF e = NoError THEN pc' = "readFile" /\ UNCHANGED response
       ELSE Answer(Failure(e))
  /\ UNCHANGED <<file, env, callNo, parseVars, dbVars, batchVars, fnVars>>

\* await fs.readFile, splitLines and the check of lines.length
ReadFile ==
  /\ pc = "readFile"
  /\ lines' = splitLines(file.content)
  /\ IF Len(lines') < 2 THEN Answer(Failure(Err("EmptyOrHeaderOnly", <<>>)))
     ELSE pc' = "headers" /\ UNCHANGED response
  /\ UNCHANGED <<file, env, callNo, headers, users, li, tokenized, dbVars,
                 batchVars, fnVars>>

\* headers = parseCSVLine(lines[0]); validateHeaders(headers); users = []
ParseHeaders ==
  /\ pc = "headers"
  /\ headers' = parseCSVLine(lines[1])
  /\ LET missing == missingHeaders(headers') IN
       IF missing # <<>> THEN Answer(Failure(Err("MissingRequiredHeaders", missing)))
       ELSE pc' = "rows" /\ UNCHANGED response
  /\ li' = 2
  /\ UNCHANGED <<file, env, callNo, lines, users, tokenized, dbVars, batchVars,
                 fnVars>>

\* One iteration of the for loop over lines[1..].
MapRow ==
  /\ pc = "rows"
  /\ li <= Len(lines)
  /\ IF Trim(lines[li]) # <<>>
     THEN LET userData == parseCSVLine(lines[li])
              user == convertToJSON(headers, userData)
          IN  /\ tokenized' = tokenized + 1
              /\ IF user.ok
                 THEN /\ users' = Append(users, user.value)
                      /\ li' = li + 1
                      /\ UNCHANGED <<pc, response>>
                 ELSE /\ Answer(Failure(Err(user.error, <<>>)))
                      /\ UNCHANGED <<users, li>>
     ELSE /\ li' = li + 1
          /\ UNCHANGED <<users, tokenized, pc, response>>
  /\ UNCHANGED <<file, env, callNo, lines, headers, dbVars, batchVars, fnVars>>

\* return users; the handler goes on to batchInsertUsers(users).
ParseReturn ==
  /\ pc = "rows"
  /\ li > Len(lines)
  /\ pc' = "begin"
  /\ UNCHANGED <<file, env, callNo, parseVars, dbVars, batchVars, response, fnVars>>

\* -------------------------------------------- userService.batchInsertUsers

\* Mutant: BEGIN issued without awaiting the parse.
QueryBegin_Early(c, inject) ==
  /\ pc \in {"rows", "begin"}
  /\ LET r == Exec(c, "BEGIN", {}, inject) IN
       /\ Ran(c, r)
       /\ stmts' = Logged("BEGIN", c, <<>>, r.ok)
       /\ IF r.ok
          THEN /\ pc' = IF 0 < Len(users) THEN "insert" ELSE "commit"
               /\ UNCHANGED caught
          ELSE /\ pc' = "rollback"
               /\ caught' = DbError("BEGIN")
  /\ bi' = 0
  /\ UNCHANGED <<file, env, callNo, parseVars, insertedCount, response, fnVars>>

\* await db.query('BEGIN')
QueryBegin(c, inject) ==
  /\ pc = "begin"
  /\ LET r == Exec(c, "BEGIN", {}, inject) IN
       /\ Ran(c, r)
       /\ stmts' = Logged("BEGIN", c, <<>>, r.ok)
       /\ IF r.ok
          THEN /\ pc' = IF 0 < Len(users) THEN "insert" ELSE "commit"
               /\ UNCHANGED caught
          ELSE /\ pc' = "rollback"
               /\ caught' = DbError("BEGIN")
  /\ bi' = 0
  /\ UNCHANGED <<file, env, callNo, parseVars, insertedCount, response, fnVars>>

\* Mutant: a chunk loop that goes on to the next chunk after a failed INSERT.
InsertUserBatch_KeepGoing(c, inject) ==
  /\ pc = "insert"
  /\ LET idxs == BatchIndices(bi, batchSize)
         r == Exec(c, "INSERT", {RowOf(idxs[k]) : k \in 1..Len(idxs)}, inject)
     IN  /\ Ran(c, r)
         /\ stmts' = Logged("INSERT", c, idxs, r.ok)
         /\ insertedCount' = insertedCount + r.rowCount
         /\ bi' = IF batchSize > 0 THEN bi + batchSize ELSE Len(users)
         /\ pc' = IF bi' < Len(users) THEN "insert" ELSE "commit"
         /\ UNCHANGED caught
  /\ UNCHANGED <<file, env, callNo, parseVars, response, fnVars>>

\* One iteration of the chunk loop: insertUserBatch(users.slice(i, i + batchSize))
InsertUserBatch(c, inject) ==
  /\ pc = "insert"
  /\ \E idxs \in {BatchIndices(bi, batchSize)} :
     \E r \in {Exec(c, "INSERT", {RowOf(idxs[k]) : k \in 1..Len(idxs)}, inject)} :
         /\ Ran(c, r)
         /\ stmts' = Logged("INSERT", c, idxs, r.ok)
         /\ IF r.ok
            THEN /\ insertedCount' = insertedCount + r.rowCount
                 /\ bi' = bi + batchSize
                 /\ pc' = IF bi' < Len(users) THEN "insert" ELSE "commit"
                 /\ UNCHANGED caught
            ELSE /\ pc' = "rollback"
                 /\ caught' = DbError("INSERT")
                 /\ UNCHANGED <<bi, insertedCount>>
  /\ UNCHANGED <<file, env, callNo, parseVars, response, fnVars>>

\* await db.query('COMMIT')
QueryCommit(c, inject) ==
  /\ pc = "commit"
  /\ LET r == Exec(c, "COMMIT", {}, inject) IN
       /\ Ran(c, r)
       /\ stmts' = Logged("COMMIT", c, <<>>, r.ok)
       /\ IF r.ok
          THEN pc' = "report" /\ UNCHANGED caught
          ELSE pc' = "rollback" /\ caught' = DbError("COMMIT")
  /\ UNCHANGED <<file, env, callNo, parseVars, bi, insertedCount, response, fnVars>>

\* catch (error) { await db.query('ROLLBACK'); throw error; }
QueryRollback(c, inject) ==
  /\ pc = "rollback"
  /\ LET r == Exec(c, "ROLLBACK", {}, inject) IN
       /\ Ran(c, r)
       /\ stmts' = Logged("ROLLBACK", c, <<>>, r.ok)
       /\ Answer(Failure(IF r.ok THEN caught ELSE DbError("ROLLBACK")))
  /\ UNCHANGED <<file, env, callNo, parseVars, bi, insertedCount, caught, fnVars>>

\* await reportService.generateAgeReport(), then res.status(200).json(...)
GenerateAgeReport(c, inject) ==
  /\ pc = "report"
  /\ LET r == Exec(c, "SELECT", {}, inject) IN
       /\ Ran(c, r)
       /\ stmts' = Logged("SELECT", c, <<>>, r.ok)
       /\ Answer(IF r.ok
                 THEN [status |-> "success", totalRecords |-> Len(users),
                       insertedRecords |-> insertedCount]
                 ELSE Failure(DbError("SELECT")))
  /\ UNCHANGED <<file, env, callNo, parseVars, bi, insertedCount, caught, fnVars>>

\* ------------------------------------------------------------------- files

HeaderLine ==
  <<"name", Dot, "firstName", Comma, "name", Dot, "lastName", Comma, "age">>

\* Data row k: a first name, a last name and the age 10 * (k % 10) + 5.
DataRow(k) == <<"A", Comma, "B", Comma, DigitSym(k % 10), "5">>

RECURSIVE JoinLines(_)
JoinLines(ls) ==
  IF Len(ls) = 1 THEN ls[1] ELSE ls[1] \o <<LF>> \o JoinLines(Tail(ls))

\* A path at which there is nothing.
NoFile == [stat |-> "ENOENT", isFile |-> FALSE, size |-> 0, content |-> <<>>]
RegularFile(content) ==
  [stat |-> "ok", isFile |-> TRUE, size |-> 64, content |-> content]

\* The files of the pipeline: a header and n data rows for every n up to
\* maxRecords (for n = 0 a header and an empty last line), a file whose header
\* lacks age, one whose second row is short, and a path that does not exist.
PipelineFiles(maxRecords) ==
  {RegularFile(JoinLines(<<HeaderLine>> \o [k \in 1..n |-> DataRow(k)]
                         \o (IF n = 0 THEN << <<>> >> ELSE <<>>))) : n \in 0..maxRecords}
  \cup {RegularFile(JoinLines(<< <<"name", Dot, "firstName", Comma, "name", Dot, "lastName">>,
                                 <<"A", Comma, "B">> >>)),
        RegularFile(JoinLines(<<HeaderLine, DataRow(1), <<"A", Comma, "B">> >>)),
        NoFile}

\* The lines the files given to parseCSVFile on its own are made of: the
\* header, a header without age, a header in another order with an empty
\* third field of four, an empty line, a line of one space, and rows of
\* three and of four fields (the latter with a quoted comma); the header
\* without age also serves as a row of two fields.
LineCands ==
  {HeaderLine,
   <<"name", Dot, "firstName", Comma, "name", Dot, "lastName">>,
   <<"age", Comma, Space, "name", Dot, "lastName", Comma, Comma, "name", Dot, "firstName">>,
   <<>>,
   <<Space>>,
   <<"A", Comma, "B", Comma, "2", "5">>,
   <<Quote, "A", Comma, "B", Quote, Comma, "C", Comma, "7", Comma, "D">>}

Terms == {<<LF>>, <<CR, LF>>}

RECURSIVE FileText(_, _)
FileText(ls, ts) ==
  IF ls = <<>> THEN <<>> ELSE ls[1] \o ts[1] \o FileText(Tail(ls), Tail(ts))

\* Every text of up to maxLines such lines, each ended by "\n" or "\r\n",
\* the last one possibly by nothing.
ParseContents(maxLines) ==
  UNION {{FileText(ls, ts) :
            ls \in [1..n -> LineCands],
            ts \in {t \in [1..n -> Terms \cup {<<>>}] : \A k \in 1..(n - 1) : t[k] # <<>>}}
         : n \in 0..maxLines}

\* 100 MB, the size limit when MAX_FILE_SIZE_MB is unset.
LimitBytes == DefaultMaxSizeMB * BytesPerMB

ParseFiles(maxLines) ==
  {RegularFile(content) : content \in ParseContents(maxLines)}
  \cup {NoFile,
        [stat |-> "EACCES", isFile |-> FALSE, size |-> 0, content |-> <<>>],
        [stat |-> "ok", isFile |-> FALSE, size |-> 64, content |-> <<>>],
        [stat |-> "ok", isFile |-> TRUE, size |-> LimitBytes + 1, content |-> HeaderLine],
        [stat |-> "ok", isFile |-> TRUE, size |-> LimitBytes,
         content |-> JoinLines(<<HeaderLine, DataRow(1)>>)]}

\* BATCH_SIZE as the environment may give it: 1, 2, unset, 0 and -1.
BatchSizeSettings == {<<"1">>, <<"2">>, <<"undefined">>, <<"0">>, <<"-", "1">>}

InitProgram ==
  /\ pc = "idle" /\ callNo = 0
  /\ lines = <<>> /\ headers = <<>> /\ users = <<>> /\ li = 0 /\ tokenized = 0
  /\ table = {} /\ conns = [c \in Conns |-> FreshConn] /\ everCommitted = {}
  /\ bi = 0 /\ insertedCount = 0 /\ caught = NoError /\ stmts = <<>>
  /\ response = NoResponse

DefaultEnv == [BATCH_SIZE |-> <<"undefined">>, MAX_FILE_SIZE_MB |-> <<"undefined">>]

Init ==
  /\ InitProgram
  /\ file \in PipelineFiles(MaxRecords)
  /\ env \in [BATCH_SIZE : BatchSizeSettings, MAX_FILE_SIZE_MB : {<<"undefined">>}]
  /\ fnArgs = <<>> /\ fnRet = <<>>

Next ==
  \/ StartProcess
  \/ ValidateFile
  \/ ReadFile
  \/ ParseHeaders
  \/ MapRow
  \/ ParseReturn
  \/ \E c \in Conns, inject \in BOOLEAN : QueryBegin(c, inject)
  \/ \E c \in Conns, inject \in BOOLEAN : InsertUserBatch(c, inject)
  \/ \E c \in Conns, inject \in BOOLEAN : QueryCommit(c, inject)
  \/ \E c \in Conns, inject \in BOOLEAN : QueryRollback(c, inject)
  \/ \E c \in Conns, inject \in BOOLEAN : GenerateAgeReport(c, inject)
  \/ \E c \in Conns : IdleTimeout(c)

Spec == Init /\ [][Next]_vars

\* batchInsertUsers on its own: the call begins with the records of a parsed
\* file of n data rows.  Every db.query is answered, with a result or with
\* an error, so each awaited statement of the call is eventually taken.
BatchUsers(n) ==
  [k \in 1..n |-> convertToJSON(parseCSVLine(HeaderLine), parseCSVLine(DataRow(k))).value]

InitBatch ==
  /\ pc = "begin" /\ callNo = 1
  /\ lines = <<>> /\ headers = <<>> /\ li = 0 /\ tokenized = 0
  /\ users \in {BatchUsers(n) : n \in 0..MaxRecords}
  /\ table = {} /\ conns = [c \in Conns |-> FreshConn] /\ everCommitted = {}
  /\ bi = 0 /\ insertedCount = 0 /\ caught = NoError /\ stmts = <<>>
  /\ response = NoResponse
  /\ file = NoFile
  /\ env \in [BATCH_SIZE : BatchSizeSettings, MAX_FILE_SIZE_MB : {<<"undefined">>}]
  /\ fnArgs = <<>> /\ fnRet = <<>>

NextBatch ==
  \/ \E c \in Conns, inject \in BOOLEAN : QueryBegin(c, inject)
  \/ \E c \in Conns, inject \in BOOLEAN : InsertUserBatch(c, inject)
  \/ \E c \in Conns, inject \in BOOLEAN : QueryCommit(c, inject)
  \/ \E c \in Conns, inject \in BOOLEAN : QueryRollback(c, inject)
  \/ \E c \in Conns : IdleTimeout(c)

SpecBatch ==
  /\ InitBatch /\ [][NextBatch]_vars
  /\ WF_vars(\E c \in Conns, inject \in BOOLEAN : QueryBegin(c, inject))
  /\ WF_vars(\E c \in Conns, inject \in BOOLEAN : InsertUserBatch(c, inject))
  /\ WF_vars(\E c \in Conns, inject \in BOOLEAN : QueryCommit(c, inject))
  /\ WF_vars(\E c \in Conns, inject \in BOOLEAN : QueryRollback(c, inject))

\* parseCSVFile on its own, over every file of ParseFiles.
InitParse ==
  /\ InitProgram
  /\ file \in ParseFiles(MaxLines)
  /\ env = DefaultEnv
  /\ fnArgs = <<>> /\ fnRet = <<>>

NextParse ==
  \/ StartProcess
  \/ ValidateFile
  \/ ReadFile
  \/ ParseHeaders
  \/ MapRow
  \/ ParseReturn

SpecParse == InitParse /\ [][NextParse]_vars

\* parseCSVLine on its own.
LineAlphabet == {"a", Space, Comma, Quote}

SeqsUpTo(S, n) == UNION {[1..k -> S] : k \in 0..n}

\* A field value written as a quoted CSV field: wrapped in double quotes,
\* each quote of the value doubled.
RECURSIVE DoubleQuotes(_)
DoubleQuotes(v) ==
  IF v = <<>> THEN <<>>
  ELSE (IF Head(v) = Quote THEN <<Quote, Quote>> ELSE <<Head(v)>>) \o DoubleQuotes(Tail(v))

EscapeField(v) == <<Quote>> \o DoubleQuotes(v) \o <<Quote>>

\* The lines given to parseCSVLine: every line of up to MaxLineLen symbols,
\* and every field value of up to MaxFieldLen symbols written as a quoted
\* field (of: the value the line was made of, none for the former).
LineInputs(maxLineLen, maxFieldLen) ==
  {[line |-> l, of |-> <<>>] : l \in SeqsUpTo(LineAlphabet, maxLineLen)}
  \cup {[line |-> EscapeField(v), of |-> <<v>>] : v \in SeqsUpTo(LineAlphabet, maxFieldLen)}

InitLine ==
  /\ InitProgram
  /\ file = NoFile /\ env = DefaultEnv
  /\ fnArgs \in LineInputs(MaxLineLen, MaxFieldLen)
  /\ fnRet = <<>>

TokenizeLine ==
  /\ fnRet = <<>>
  /\ fnRet' = <<parseCSVLine(fnArgs.line)>>
  /\ UNCHANGED <<file, env, pc, callNo, parseVars, dbVars, batchVars, response, fnArgs>>

NextLine == TokenizeLine

SpecLine == InitLine /\ [][NextLine]_vars

\* convertToJSON on its own.
HeaderCands ==
  {<<"age">>, <<"name", Dot, "firstName">>, <<"name", Dot, "lastName">>,
   <<"name">>, <<"x", Dot, "ID">>, <<"x", Dot, "y", Dot, "z">>, <<"age", Dot, "x">>}

ValueCands == {<<"2", "5">>, <<"A">>, <<>>}

\* Headers of a one-column row: age and the three suffixes in several
\* cases, with and without the dot, at the end and not.
CoerceHeaders ==
  {<<"age">>, <<"Age">>, <<"AGE">>, <<"x", Dot, "age">>, <<"x", Dot, "Age">>,
   <<"x", Dot, "id">>, <<"x", Dot, "Id">>, <<"x", Dot, "count">>,
   <<"x", Dot, "COUNT">>, <<"x", Dot, "y", Dot, "ID">>, <<"age", Dot, "x">>,
   <<"xage">>, <<"id">>, <<"count">>, <<"name">>, <<"x", Dot, "ages">>}

ValueAlphabet == {"2", Dot, "a", Space}

\* The one-column rows: each of CoerceHeaders with every value of up to
\* maxValueLen symbols.
CoerceInputs(maxValueLen) ==
  [headers : {<<h>> : h \in CoerceHeaders},
   values : {<<v>> : v \in SeqsUpTo(ValueAlphabet, maxValueLen)}]

InitJSON ==
  /\ InitProgram
  /\ file = NoFile /\ env = DefaultEnv
  /\ fnArgs \in [headers : SeqsUpTo(HeaderCands, MaxCols),
                 values : SeqsUpTo(ValueCands, MaxCols)]
                \cup CoerceInputs(MaxValueLen)
  /\ fnRet = <<>>

ConvertRow ==
  /\ fnRet = <<>>
  /\ fnRet' = <<convertToJSON(fnArgs.headers, fnArgs.values)>>
  /\ UNCHANGED <<file, env, pc, callNo, parseVars, dbVars, batchVars, response, fnArgs>>

NextJSON == ConvertRow

SpecJSON == InitJSON /\ [][NextJSON]_vars

\* ---------------------------------------------------------- reportService

RECURSIVE SumAges(_)
SumAges(rows) ==
  IF rows = {} THEN 0
  ELSE LET r == CHOOSE r \in rows : TRUE IN r.data.age.n + SumAges(rows \ {r})

\* COUNT(...) as pg returns a bigint: a string of digits.
CountOf(rows) == NatToString(Cardinality(rows))

\* Mutant: the aggregate query with age <= 20 in its first bucket.
getAgeStatistics_Overlap(rows) ==
  LET counted == {r \in rows : r.data.age.n > 0}
      ages == {r.data.age.n : r \in counted}
  IN  [total_users |-> CountOf(counted),
       under_20 |-> CountOf({r \in counted : r.data.age.n <= 20}),
       age_20_to_40 |-> CountOf({r \in counted : r.data.age.n >= 20 /\ r.data.age.n < 40}),
       age_40_to_60 |-> CountOf({r \in counted : r.data.age.n >= 40 /\ r.data.age.n < 60}),
       over_60 |-> CountOf({r \in counted : r.data.age.n >= 60}),
       average_age |-> IF counted = {} THEN Null
                       ELSE [t |-> "numeric", sum |-> SumAges(counted),
                             count |-> Cardinality(counted)],
       min_age |-> IF counted = {} THEN Null
                   ELSE Num(CHOOSE a \in ages : \A b \in ages : a <= b, <<>>),
       max_age |-> IF counted = {} THEN Null
                   ELSE Num(CHOOSE a \in ages : \A b \in ages : a >= b, <<>>)]

\* getAgeStatistics: the one row of the aggregate query over the rows the
\* statement sees.  MIN, MAX and AVG over no row are null.
getAgeStatistics(rows) ==
  LET counted == {r \in rows : r.data.age.n > 0}
      ages == {r.data.age.n : r \in counted}
  IN  [total_users |-> CountOf(counted),
       under_20 |-> CountOf({r \in counted : r.data.age.n < 20}),
       age_20_to_40 |-> CountOf({r \in counted : r.data.age.n >= 20 /\ r.data.age.n < 40}),
       age_40_to_60 |-> CountOf({r \in counted : r.data.age.n >= 40 /\ r.data.age.n < 60}),
       over_60 |-> CountOf({r \in counted : r.data.age.n >= 60}),
       average_age |-> IF counted = {} THEN Null
                       ELSE [t |-> "numeric", sum |-> SumAges(counted),
                             count |-> Cardinality(counted)],
       min_age |-> IF counted = {} THEN Null
                   ELSE Num(CHOOSE a \in ages : \A b \in ages : a <= b, <<>>),
       max_age |-> IF counted = {} THEN Null
                   ELSE Num(CHOOSE a \in ages : \A b \in ages : a >= b, <<>>)]

\* Math.round((count / totalUsers) * 100)
Percentage(count, totalUsers) == (200 * count + totalUsers) \div (2 * totalUsers)

\* parseFloat(average_age).toFixed(1): the average to one decimal, a string.
ToFixed1(avg) ==
  LET tenths == (20 * avg.sum + avg.count) \div (2 * avg.count)
  IN  NatToString(tenths \div 10) \o <<Dot, DigitSym(tenths % 10)>>

AgeGroup(group, count, totalUsers) ==
  [group |-> group, count |-> count, percentage |-> Percentage(count, totalUsers)]

\* getAgeDistribution, given the row of getAgeStatistics.
getAgeDistribution(stats) ==
  IF parseInt(stats.total_users) = [nan |-> FALSE, v |-> 0]
  THEN [totalUsers |-> 0, ageGroups |-> <<>>, averageAge |-> Num(0, <<>>),
        ageRange |-> [min |-> 0, max |-> 0]]
  ELSE LET totalUsers == parseInt(stats.total_users).v
           under20 == OrDefault(parseInt(stats.under_20), 0)
           age20to40 == OrDefault(parseInt(stats.age_20_to_40), 0)
           age40to60 == OrDefault(parseInt(stats.age_40_to_60), 0)
           over60 == OrDefault(parseInt(stats.over_60), 0)
       IN  [totalUsers |-> totalUsers,
            ageGroups |-> <<AgeGroup("< 20", under20, totalUsers),
                            AgeGroup("20 to 40", age20to40, totalUsers),
                            AgeGroup("40 to 60", age40to60, totalUsers),
                            AgeGroup("> 60", over60, totalUsers)>>,
            averageAge |-> Str(ToFixed1(stats.average_age)),
            ageRange |-> [min |-> parseInt(ToStr(stats.min_age)).v,
                          max |-> parseInt(ToStr(stats.max_age)).v]]

\* GET /api/csv/report: generateReport -> getAgeDistribution.  fnArgs keeps
\* the rows the query saw and fnRet the row it returned.
GenerateReport(c, inject) ==
  /\ pc = "idle"
  /\ callNo < MaxRequests
  /\ callNo' = callNo + 1
  /\ LET r == Exec(c, "SELECT", {}, inject) IN
       /\ Ran(c, r)
       /\ stmts' = Logged("SELECT", c, <<>>, r.ok)
       /\ IF r.ok
          THEN /\ fnArgs' = [rows |-> Visible(c)]
               /\ fnRet' = <<getAgeStatistics(Visible(c))>>
               /\ response' = [status |-> "success",
                               data |-> getAgeDistribution(fnRet'[1])]
          ELSE /\ response' = Failure(DbError("SELECT"))
               /\ UNCHANGED fnVars
  /\ UNCHANGED <<file, env, pc, parseVars, bi, insertedCount, caught>>

\* DELETE /api/csv/users: clearUsers -> clearAllUsers.
ClearUsers(c, inject) ==
  /\ pc = "idle"
  /\ callNo < MaxRequests
  /\ callNo' = callNo + 1
  /\ LET r == Exec(c, "DELETE", {}, inject) IN
       /\ Ran(c, r)
       /\ stmts' = Logged("DELETE", c, <<>>, r.ok)
       /\ response' = IF r.ok THEN [status |-> "success", deletedCount |-> r.rowCount]
                      ELSE Failure(DbError("DELETE"))
  /\ UNCHANGED <<file, env, pc, parseVars, bi, insertedCount, caught, fnVars>>

\* The ages of the persisted rows the report is asked over: both sides of
\* every bucket edge, zero and a negative age.
AgeCands == {0 - 1, 0, 19, 20, 39, 40, 59, 60}

StoredRow(k, a) ==
  [call |-> 0, idx |-> k,
   data |-> [name |-> <<"A", Space, "B">>, age |-> Num(a, <<>>), address |-> Null,
             additionalInfo |-> Null]]

\* Every users table of up to maxRows rows with ages of AgeCands.
StoredTables(maxRows) ==
  UNION {{{StoredRow(k, ages[k]) : k \in 1..n} : ages \in [1..n -> AgeCands]}
         : n \in 0..maxRows}

InitReport ==
  /\ pc = "idle" /\ callNo = 0
  /\ lines = <<>> /\ headers = <<>> /\ users = <<>> /\ li = 0 /\ tokenized = 0
  /\ table \in StoredTables(MaxRows)
  /\ conns = [c \in Conns |-> FreshConn] /\ everCommitted = {}
  /\ bi = 0 /\ insertedCount = 0 /\ caught = NoError /\ stmts = <<>>
  /\ response = NoResponse
  /\ file = NoFile /\ env = DefaultEnv
  /\ fnArgs = <<>> /\ fnRet = <<>>

NextReport ==
  \/ \E c \in Conns, inject \in BOOLEAN : GenerateReport(c, inject)
  \/ \E c \in Conns, inject \in BOOLEAN : ClearUsers(c, inject)

SpecReport == InitReport /\ [][NextReport]_vars

\* ------------------------------------------------------------ errorHandler

\* A message the handler writes itself.
Fixed(text) == [text |-> text, of |-> "errorHandler"]

\* error.code: the errors of fs carry one; the Errors that the services
\* make with new Error(...) carry none.
CodeOf(error) == IF error.kind = "fs" THEN error.detail ELSE "none"

\* The response errorHandler sends for what next(error) handed it.  Every
\* error of the pipeline is a plain Error or an error of fs or pg: it has
\* no statusCode and no isOperational, and its name is none of those the
\* handler looks for.  ownMessage is error.message, told apart by the kind
\* of error that wrote it.
errorHandler(error, nodeEnv) ==
  LET ownMessage == [text |-> "error.message", of |-> error.kind]
      byCode == CASE CodeOf(error) = "ENOENT" ->
                       [statusCode |-> 404, message |-> Fixed("File not found")]
                  [] CodeOf(error) = "EACCES" ->
                       [statusCode |-> 403, message |-> Fixed("Access denied")]
                  [] OTHER -> [statusCode |-> 500, message |-> ownMessage]
      isOperational == FALSE
      message == IF nodeEnv = <<"production">> /\ ~isOperational
                 THEN Fixed("Internal server error") ELSE byCode.message
  IN  IF nodeEnv = <<"development">>
      THEN [success |-> FALSE, statusCode |-> byCode.statusCode, message |-> message,
            stack |-> ownMessage]
      ELSE [success |-> FALSE, statusCode |-> byCode.statusCode, message |-> message]

NodeEnvs == {<<"production">>, <<"development">>, <<"test">>, <<"undefined">>}

\* The errors processCSV hands to next(error): those of validateFile, of
\* the parse, and of a statement of the batch or the report.
ProcessErrors(maxRecords) ==
  {validateFile(f) : f \in {NoFile,
                             [NoFile EXCEPT !.stat = "EACCES"],
                             [NoFile EXCEPT !.stat = "ok"],
                             [NoFile EXCEPT !.stat = "ok", !.isFile = TRUE,
                                            !.size = LimitBytes + 1]}}
  \cup {Err("EmptyOrHeaderOnly", <<>>), Err("HeaderCountMismatch", <<>>)}
  \cup {Err("MissingRequiredHeaders", missingHeaders(hs)) :
          hs \in {h \in SeqsUpTo({requiredHeaders[k] : k \in 1..3}, 2) :
                    missingHeaders(h) # <<>>}}
  \cup {Err("db", [stmt |-> kind, at |-> k]) :
          kind \in {"BEGIN", "INSERT", "COMMIT", "ROLLBACK", "SELECT"},
          k \in 1..(maxRecords + 3)}

InitError ==
  /\ InitProgram
  /\ file = NoFile
  /\ env \in {[BATCH_SIZE |-> <<"undefined">>, MAX_FILE_SIZE_MB |-> <<"undefined">>,
               NODE_ENV |-> n] : n \in NodeEnvs}
  /\ fnArgs \in [error : ProcessErrors(MaxRecords)]
  /\ fnRet = <<>>

HandleError ==
  /\ fnRet = <<>>
  /\ fnRet' = <<errorHandler(fnArgs.error, env.NODE_ENV)>>
  /\ UNCHANGED <<file, env, pc, callNo, parseVars, dbVars, batchVars, response, fnArgs>>

NextError == HandleError

SpecError == InitError /\ [][NextError]_vars

\* prepareUserData on its own, over the records convertToJSON makes of a
\* row: the three required columns, these and address.city, these with a
\* column name after or before them, and the two name columns alone, with
\* every age value of up to maxValueLen symbols.
UserHeaders ==
  {requiredHeaders,
   Append(requiredHeaders, <<"address", Dot, "city">>),
   Append(requiredHeaders, <<"name">>),
   << <<"name">> >> \o requiredHeaders,
   SubSeq(requiredHeaders, 1, 2)}

\* The row under the headers hs with the first name f and the age a.
UserRow(hs, f, a) ==
  [k \in 1..Len(hs) |->
     IF hs[k] = <<"age">> THEN a
     ELSE IF hs[k] = requiredHeaders[1] THEN f
     ELSE IF hs[k] = requiredHeaders[2] THEN <<"B">>
     ELSE <<"C">>]

\* user: the record of the row; headers and values: what it was made of.
UserRecords(maxValueLen) ==
  {[user |-> convertToJSON(hs, UserRow(hs, f, a)).value, headers |-> hs,
    values |-> UserRow(hs, f, a)] :
     hs \in UserHeaders, a \in SeqsUpTo(ValueAlphabet, maxValueLen), f \in {<<"A">>, <<>>}}

InitPrepare ==
  /\ InitProgram
  /\ file = NoFile /\ env = DefaultEnv
  /\ fnArgs \in UserRecords(MaxValueLen)
  /\ fnRet = <<>>

PrepareUser ==
  /\ fnRet = <<>>
  /\ fnRet' = <<prepareUserData(fnArgs.user)>>
  /\ UNCHANGED <<file, env, pc, callNo, parseVars, dbVars, batchVars, response, fnArgs>>

NextPrepare == PrepareUser

SpecPrepare == InitPrepare /\ [][NextPrepare]_vars

\* ------------------------------------------------------------ properties

\* The handler has answered its request.
Ended == pc = "idle" /\ callNo > 0

\* The rows of this call that were committed at some time.
CommittedOfCall == {r \in everCommitted : r.call = callNo}

StmtsOfKind(kind) == SelectSeq(stmts, LAMBDA st : st.kind = kind)

InsertFailed == \E k \in 1..Len(stmts) : stmts[k].kind = "INSERT" /\ ~stmts[k].ok

\* C1 (as claimed): when the write of a chunk failed and batchInsertUsers has
\* returned, no row of this call is or ever was committed, the rows of the
\* chunks written before the failing one included.
C1_FailedBatchCommitsNothing ==
  (Ended /\ InsertFailed) => (CommittedOfCall = {} /\ table \cap CommittedOfCall = {})

\* C2 (as claimed): BEGIN, every INSERT and the COMMIT or ROLLBACK of one
\* batchInsertUsers call run on one and the same connection.
C2_OneConnectionPerBatch ==
  \A j, k \in 1..Len(stmts) :
    (stmts[j].kind # "SELECT" /\ stmts[k].kind # "SELECT") => stmts[j].conn = stmts[k].conn

\* parseCSVFile has returned its records to the handler.
ParseSucceeded ==
  /\ validateFile(file) = NoError
  /\ Len(lines) >= 2
  /\ missingHeaders(headers) = <<>>
  /\ li > Len(lines)
  /\ pc \notin {"validateFile", "readFile", "headers", "rows"}

\* C3: processCSV is a sequential chain.  A database statement is issued
\* only after parseCSVFile has returned its records; the first statement is
\* BEGIN; the age-report query comes after a COMMIT that succeeded and is the
\* last statement; and a call whose parse failed has issued no statement and
\* committed no row.
C3_SequentialChain ==
  /\ stmts # <<>> => (ParseSucceeded /\ stmts[1].kind = "BEGIN")
  /\ \A k \in 1..Len(stmts) :
       stmts[k].kind = "SELECT" =>
         /\ k = Len(stmts)
         /\ k > 1 /\ stmts[k - 1].kind = "COMMIT" /\ stmts[k - 1].ok
  /\ (Ended /\ response.status = "error" /\ response.error.kind # "db") =>
       (stmts = <<>> /\ CommittedOfCall = {})

\* C3 witness: the whole chain ran, from the parse to the report, over two
\* records.
C3_Witness ==
  /\ Ended /\ response.status = "success"
  /\ Len(users) = 2
  /\ Len(StmtsOfKind("SELECT")) = 1

\* C4 (as claimed): a success response carries insertedRecords equal to
\* totalRecords, and exactly that many rows of this call are committed.
C4_SuccessMeansAllCommitted ==
  (Ended /\ response.status = "success") =>
    /\ response.insertedRecords = response.totalRecords
    /\ response.totalRecords = Len(users)
    /\ Cardinality(CommittedOfCall) = response.totalRecords

\* ceil(n / s) for s > 0
CeilDiv(n, s) == (n + s - 1) \div s

Min(a, b) == IF a < b THEN a ELSE b

\* Chunk k of n records cut into chunks of s: the positions (k-1)s+1 .. min(ks, n).
ChunkPositions(k, n, s) ==
  [j \in 1..(Min(k * s, n) - (k - 1) * s) |-> (k - 1) * s + j]

\* C5: with a positive chunk size s and n records, the k-th INSERT that
\* batchInsertUsers issues carries records (k-1)s+1 .. min(ks, n) in input
\* order (s records, the last chunk between 1 and s), never more than
\* ceil(n/s) INSERTs are issued, and a call whose chunk loop ran to its end
\* (it went on to COMMIT) has issued exactly ceil(n/s) of them, which together
\* are the input sequence.
C5_Chunking ==
  batchSize > 0 =>
    LET ins == StmtsOfKind("INSERT")
        n == Len(users)
        total == CeilDiv(n, batchSize)
    IN  /\ Len(ins) <= total
        /\ \A k \in 1..Len(ins) :
             /\ ins[k].rows = ChunkPositions(k, n, batchSize)
             /\ Len(ins[k].rows) >= 1 /\ Len(ins[k].rows) <= batchSize
             /\ k < total => Len(ins[k].rows) = batchSize
        /\ StmtsOfKind("COMMIT") # <<>> => Len(ins) = total

\* C5 witness: two records with BATCH_SIZE = 1 went out as two INSERTs and the
\* call went on to COMMIT.
C5_Witness ==
  /\ batchSize = 1 /\ Len(users) = 2
  /\ Len(StmtsOfKind("INSERT")) = 2
  /\ StmtsOfKind("COMMIT") # <<>>

\* The header row and the data lines of the file as parseCSVFile reads them.
FileLines == splitLines(file.content)
HeaderRow == parseCSVLine(FileLines[1])
DataLineNos == {k \in 2..Len(FileLines) : Trim(FileLines[k]) # <<>>}

\* parseCSVFile has returned or thrown.
ParseEnded == Ended \/ pc = "begin"

ParseError(kind) ==
  Ended /\ response.status = "error" /\ response.error.kind = kind

\* C6: a file with a data row whose field count differs from the header's is
\* never parsed into records: parseCSVFile does not return, and it ends in
\* an error. Stated from the outcome: whenever parseCSVFile has returned, or
\* the request has ended in anything but an error, every data row of the
\* file has as many fields as the header row.
C6_MismatchAbortsParse ==
  (pc = "begin" \/ (Ended /\ response.status # "error")) =>
    \A k \in DataLineNos : Len(parseCSVLine(FileLines[k])) = Len(HeaderRow)

\* C6 witness: the parse failed on a row's field count after it had mapped
\* an earlier row.
C6_Witness == ParseError("HeaderCountMismatch") /\ Len(users) >= 1

\* The file passes validateFile and has the two lines parseCSVFile asks for,
\* so that its first line is read as the header row.
HeaderRowRead == validateFile(file) = NoError /\ Len(FileLines) >= 2

AbsentRequired ==
  {requiredHeaders[k] : k \in {j \in 1..Len(requiredHeaders) :
                                 ~Includes(HeaderRow, requiredHeaders[j])}}

\* C7: where parseCSVFile reads a header row, it ends in the
\* missing-required-headers error exactly when that row lacks one of
\* name.firstName, name.lastName, age; the error names exactly the absent
\* ones; and no data row has been tokenized or mapped by then.
C7_MissingHeaders ==
  ParseEnded =>
    /\ ParseError("MissingRequiredHeaders") <=> (HeaderRowRead /\ AbsentRequired # {})
    /\ ParseError("MissingRequiredHeaders") =>
         /\ {response.error.detail[k] : k \in 1..Len(response.error.detail)} = AbsentRequired
         /\ Len(response.error.detail) = Cardinality(AbsentRequired)
         /\ tokenized = 0 /\ users = <<>>

\* C7 witness: a file whose header lacks only age, followed by a data row,
\* was refused.
C7_Witness ==
  /\ ParseError("MissingRequiredHeaders")
  /\ response.error.detail = << <<"age">> >>
  /\ DataLineNos # {}

\* C8 (as claimed, its last clause): for a readable file with fewer than 2
\* lines that are non-empty after trimming, parseCSVFile never returns a
\* record list; it would have to end in the empty-or-header-only error.
C8_FewLinesNeverReturn ==
  (/\ validateFile(file) = NoError
   /\ Cardinality({k \in 1..Len(FileLines) : Trim(FileLines[k]) # <<>>}) < 2)
  => pc # "begin"

\* C9 (as claimed): a value wrapped in quotes, its quotes doubled, comes
\* back from parseCSVLine as one field equal to the value.
C9_RoundTripExact ==
  (fnRet # <<>> /\ fnArgs.of # <<>>) => fnRet[1] = <<fnArgs.of[1]>>

\* C9 (amended): it comes back as one field equal to the value with its
\* leading and trailing whitespace removed, hence equal to the value itself
\* when that neither begins nor ends with whitespace.
C9_RoundTripTrimmed ==
  (fnRet # <<>> /\ fnArgs.of # <<>>) =>
    LET v == fnArgs.of[1] IN
      /\ fnArgs.line = EscapeField(v)
      /\ fnRet[1] = <<Trim(v)>>
      /\ (v = <<>> \/ (~IsSpace(v[1]) /\ ~IsSpace(v[Len(v)]))) => fnRet[1] = <<v>>

\* C9 witness: a value holding a comma and a quote came back as it was.
C9_Witness ==
  /\ fnArgs.of = << <<"a", Comma, Quote, "a">> >>
  /\ fnRet = << << <<"a", Comma, Quote, "a">> >> >>

\* The value reached from v along the keys, Undefined when the way ends.
RECURSIVE Follow(_, _)
Follow(v, keys) ==
  IF keys = <<>> THEN v ELSE Follow(Get(v, keys[1]), Tail(keys))

\* The key paths of the leaves (the values that are not objects) of v.
RECURSIVE Leaves(_)
Leaves(v) ==
  IF v.t # "obj" THEN {<<>>}
  ELSE UNION {{<<k>> \o p : p \in Leaves(v.f[k])} : k \in DOMAIN v.f}

IsPrefix(p, q) == Len(p) <= Len(q) /\ SubSeq(q, 1, Len(p)) = p

\* No two columns name the same path, or a path through another's leaf.
NoCollision(hs) ==
  \A i, j \in 1..Len(hs) :
    i # j => ~IsPrefix(SplitDots(hs[i]), SplitDots(hs[j]))

\* C10: for headers whose paths do not collide and as many values, the
\* record of convertToJSON holds at each header's path that column's value,
\* as the string it was or as parseNumber coerced it, and has no other leaf;
\* the age leaf of a column of digits is that number.
C10_NestedRecord ==
  (/\ fnRet # <<>>
   /\ Len(fnArgs.headers) = Len(fnArgs.values)
   /\ NoCollision(fnArgs.headers))
  => /\ fnRet[1].ok
     /\ \A i \in 1..Len(fnArgs.headers) :
          LET leaf == Follow(fnRet[1].value, SplitDots(fnArgs.headers[i]))
              v == fnArgs.values[i]
          IN  /\ leaf \in {Str(v), parseNumber(v)}
              /\ (fnArgs.headers[i] = <<"age">> /\ v # <<>> /\ IsDigits(v)) =>
                   leaf = Num(DigitsValue(v), <<>>)
     /\ Leaves(fnRet[1].value) =
          {SplitDots(fnArgs.headers[i]) : i \in 1..Len(fnArgs.headers)}

\* C10 witness: name.firstName, name.lastName, age with A, A, 25 became
\* {name: {firstName: "A", lastName: "A"}, age: 25}.
C10_Witness ==
  /\ fnArgs.headers = << <<"name", Dot, "firstName">>, <<"name", Dot, "lastName">>, <<"age">> >>
  /\ fnArgs.values = << <<"A">>, <<"A">>, <<"2", "5">> >>
  /\ fnRet # <<>>
  /\ fnRet[1].value =
       Obj((<<"name">> :> Obj((<<"firstName">> :> Str(<<"A">>)) @@ (<<"lastName">> :> Str(<<"A">>))))
           @@ (<<"age">> :> Num(25, <<>>)))

\* The headers the specification coerces: exactly age, or a last segment
\* age, id or count in any case after a dot.
CoercedHeader(h) ==
  \/ h = <<"age">>
  \/ /\ Len(h) >= 2 /\ h[Len(h) - 1] = Dot
     /\ h[Len(h)] \in {"age", "Age", "AGE", "id", "Id", "ID", "count", "Count", "COUNT"}

\* C11: in a one-column row the stored value is coerced exactly when the
\* header is age or ends in .age, .id or .count in any case: null for a
\* value empty after trimming, the number for a value that reads as one,
\* the original string otherwise; under any other header it is the original
\* string.  No value makes convertToJSON fail.
C11_NumericCoercion ==
  (fnRet # <<>> /\ Len(fnArgs.headers) = 1 /\ Len(fnArgs.values) = 1) =>
    LET h == fnArgs.headers[1]
        v == fnArgs.values[1]
        leaf == Follow(fnRet[1].value, SplitDots(h))
    IN  /\ fnRet[1].ok
        /\ IF ~CoercedHeader(h) THEN leaf = Str(v)
           ELSE IF Trim(v) = <<>> THEN leaf = Null
           ELSE IF ToNumber(Trim(v)).t = "num" THEN leaf = ToNumber(Trim(v))
           ELSE leaf = Str(v)

\* C11 witness: the column x.COUNT with the value " 2" was stored as the
\* number 2.
C11_Witness ==
  /\ fnArgs.headers = << <<"x", Dot, "COUNT">> >>
  /\ fnArgs.values = << <<Space, "2">> >>
  /\ fnRet # <<>>
  /\ fnRet[1].value = Obj(<<"x">> :> Obj(<<"COUNT">> :> Num(2, <<>>)))

\* C12 (as claimed): the age that prepareUserData hands to the INSERT is an
\* integer, and it is 0 when the record's age leaf is missing, null or a
\* value that is no number.
C12_AgeIsInteger ==
  fnRet # <<>> =>
    LET leaf == Get(fnArgs.user, <<"age">>)
        age == fnRet[1].age
    IN  /\ age.t = "num" /\ age.d = <<>>
        /\ leaf.t # "num" => age = Num(0, <<>>)

\* The bucket of a positive age: 1 for [0,20), 2 for [20,40), 3 for [40,60),
\* 4 for [60,inf).
Bucket(a) == IF a >= 60 THEN 4 ELSE (a \div 20) + 1

\* C13: the four counts of getAgeStatistics partition the rows with age > 0.
\* Bucket i counts exactly the rows seen whose age is positive and lies in
\* bucket i, the four counts sum to total_users, which is the number of
\* rows with age > 0, and min_age and max_age are the smallest and the
\* largest age counted.
C13_BucketsPartition ==
  fnRet # <<>> =>
    LET st == fnRet[1]
        pos == {r \in fnArgs.rows : r.data.age.n > 0}
        InBucket(i) == Cardinality({r \in pos : Bucket(r.data.age.n) = i})
        n1 == parseInt(st.under_20).v
        n2 == parseInt(st.age_20_to_40).v
        n3 == parseInt(st.age_40_to_60).v
        n4 == parseInt(st.over_60).v
        total == parseInt(st.total_users).v
    IN  /\ n1 = InBucket(1) /\ n2 = InBucket(2) /\ n3 = InBucket(3) /\ n4 = InBucket(4)
        /\ n1 + n2 + n3 + n4 = total
        /\ total = Cardinality(pos)
        /\ pos # {} =>
             /\ \E r \in pos : st.min_age = r.data.age
             /\ \E r \in pos : st.max_age = r.data.age
             /\ \A r \in pos : st.min_age.n <= r.data.age.n /\ r.data.age.n <= st.max_age.n

\* C13 witness: over a row of age 20 and a row of age 0 the statistics count
\* one row, in the second bucket.
C13_Witness ==
  /\ fnRet # <<>>
  /\ {r.data.age.n : r \in fnArgs.rows} = {0, 20}
  /\ fnRet[1].total_users = <<"1">>
  /\ fnRet[1].age_20_to_40 = <<"1">>
  /\ fnRet[1].under_20 = <<"0">>

\* The last request was a report and it was answered with success.
ReportAnswered ==
  response.status = "success" /\ "data" \in DOMAIN response /\ fnRet # <<>>

\* C14 (as claimed): a report over a table with no row of age > 0 is the
\* empty result: total 0, the four buckets each with count 0, and average,
\* min and max 0.
C14_EmptyReport ==
  (ReportAnswered /\ \A r \in fnArgs.rows : r.data.age.n <= 0) =>
    LET d == response.data IN
      /\ d.totalUsers = 0
      /\ Len(d.ageGroups) = 4
      /\ \A k \in 1..Len(d.ageGroups) : d.ageGroups[k].count = 0
      /\ d.averageAge = Num(0, <<>>)
      /\ d.ageRange = [min |-> 0, max |-> 0]

\* The category of the taxonomy an error of the pipeline belongs to.
Category(error) ==
  CASE error.kind \in {"FileNotFound", "fs", "NotAFile", "FileTooLarge"} -> "FileAccess"
    [] error.kind \in {"EmptyOrHeaderOnly", "MissingRequiredHeaders",
                       "HeaderCountMismatch"} -> "SchemaValidation"
    [] error.kind = "db" -> "PersistenceFailure"

\* C15 (as claimed): under every NODE_ENV the status and the message of the
\* failure response tell the category of the error: no error of another
\* category gets the same status and message, and the message is not the
\* generic one.
C15_CategoryDistinguishable ==
  fnRet # <<>> =>
    /\ fnRet[1].message # Fixed("Internal server error")
    /\ \A e \in ProcessErrors(MaxRecords) :
         Category(e) # Category(fnArgs.error) =>
           LET other == errorHandler(e, env.NODE_ENV) IN
             <<other.statusCode, other.message>> # <<fnRet[1].statusCode, fnRet[1].message>>

\* C16 (as claimed): when the write of a chunk failed, the error the caller
\* receives is that write's error, and the last statement issued before it
\* was delivered is a ROLLBACK, whether the ROLLBACK succeeded or failed.
C16_WriteErrorUnmodified ==
  (Ended /\ InsertFailed) =>
    /\ response.status = "error"
    /\ stmts[Len(stmts)].kind = "ROLLBACK"
    /\ caught.detail.stmt = "INSERT"
    /\ response.error = caught

\* What each position of a line is to the tokenizer, read from the left with
\* the inside-quotes flag: "sep" a comma outside quotes, "toggle" a quote
\* that flips the flag, "escape" the first and "skip" the second quote of a
\* doubled quote inside quotes, "text" anything else.
RECURSIVE MarksFrom(_, _, _)
MarksFrom(line, i, inside) ==
  IF i > Len(line) THEN <<>>
  ELSE IF line[i] = Quote /\ inside /\ i < Len(line) /\ line[i + 1] = Quote
       THEN <<"escape", "skip">> \o MarksFrom(line, i + 2, inside)
  ELSE IF line[i] = Quote THEN <<"toggle">> \o MarksFrom(line, i + 1, ~inside)
  ELSE IF line[i] = Comma /\ ~inside THEN <<"sep">> \o MarksFrom(line, i + 1, inside)
  ELSE <<"text">> \o MarksFrom(line, i + 1, inside)

\* The text emitted from positions from..to of a line with the given marks.
RECURSIVE Emitted(_, _, _, _)
Emitted(line, marks, from, to) ==
  IF from > to THEN <<>>
  ELSE (IF marks[from] \in {"text", "escape"} THEN <<line[from]>> ELSE <<>>)
         \o Emitted(line, marks, from + 1, to)

\* C17: parseCSVLine returns, for every line, one field more than the line
\* has commas outside quotes; field k is the trimmed text between the
\* (k-1)-th and the k-th such comma, in which a toggling quote is left out
\* and a doubled quote inside quotes stands for one quote; the text after
\* the last comma is the last field even when a quote was left open.
C17_TokenizerFields ==
  fnRet # <<>> =>
    LET line == fnArgs.line
        fields == fnRet[1]
        marks == MarksFrom(line, 1, FALSE)
        seps == {i \in 1..Len(line) : marks[i] = "sep"}
        \* the position of the k-th separator; 0 before the first field and
        \* Len(line) + 1 after the last
        SepAt(k) == IF k = 0 THEN 0
                    ELSE IF k > Cardinality(seps) THEN Len(line) + 1
                    ELSE CHOOSE i \in seps : Cardinality({j \in seps : j < i}) = k - 1
    IN  /\ Len(fields) = 1 + Cardinality(seps)
        /\ \A k \in 1..Len(fields) :
             /\ fields[k] = Trim(Emitted(line, marks, SepAt(k - 1) + 1, SepAt(k) - 1))
             /\ fields[k] # <<>> =>
                  ~IsSpace(fields[k][1]) /\ ~IsSpace(fields[k][Len(fields[k])])

\* C17 witness: a line that opens a quote and never closes it came back as
\* one field with its comma kept.
C17_Witness ==
  /\ fnArgs.line = <<Quote, "a", Comma, "a">>
  /\ fnRet = << << <<"a", Comma, "a">> >> >>

\* Column i of a row is still there after the later columns were written:
\* no later column names its path or a path above it (which overwrites it)
\* and none names a path through it (which replaces it by an object).
Survives(hs, i) ==
  \A j \in (i + 1)..Len(hs) :
    /\ ~IsPrefix(SplitDots(hs[j]), SplitDots(hs[i]))
    /\ ~IsPrefix(SplitDots(hs[i]), SplitDots(hs[j]))

\* C18: colliding headers raise no error and the later column wins.  The
\* record holds exactly the columns that no later column overwrote or
\* replaced: a duplicated header holds its last column's value, a scalar or
\* null under a key that a later header goes through has made way for an
\* object, and the leaves written earlier under an object that later
\* headers go through are kept.
C18_LastWriteWins ==
  (fnRet # <<>> /\ Len(fnArgs.headers) = Len(fnArgs.values)) =>
    LET hs == fnArgs.headers
        kept == {i \in 1..Len(hs) : Survives(hs, i)}
    IN  /\ fnRet[1].ok
        /\ \A i \in kept :
             Follow(fnRet[1].value, SplitDots(hs[i])) = Coerce(hs[i], fnArgs.values[i])
        /\ Leaves(fnRet[1].value) = {SplitDots(hs[i]) : i \in kept}

\* C18 witness: name.firstName, then name, then name.lastName: the scalar
\* under name took the place of the object, and made way for a fresh one.
C18_Witness ==
  /\ fnArgs.headers = << <<"name", Dot, "firstName">>, <<"name">>, <<"name", Dot, "lastName">> >>
  /\ fnArgs.values = << <<"A">>, <<"2", "5">>, <<"A">> >>
  /\ fnRet # <<>>
  /\ fnRet[1].value = Obj(<<"name">> :> Obj(<<"lastName">> :> Str(<<"A">>)))

\* C19 (as claimed): when parseCSVFile returns, every header is non-empty
\* and no record has an empty key at any depth.
C19_HeadersNonEmpty ==
  pc = "begin" =>
    /\ \A k \in 1..Len(headers) : headers[k] # <<>>
    /\ \A i \in 1..Len(users) :
         \A p \in Leaves(users[i]) : \A k \in 1..Len(p) : p[k] # <<>>

KindsOf(sts) == [k \in 1..Len(sts) |-> sts[k].kind]

\* C20 (as claimed, its terminal part): a call that has ended and issued
\* statements issued exactly one of COMMIT and ROLLBACK, COMMIT when every
\* INSERT succeeded and ROLLBACK otherwise.
C20_SingleTerminal ==
  (Ended /\ stmts # <<>>) =>
    /\ (StmtsOfKind("COMMIT") # <<>>) # (StmtsOfKind("ROLLBACK") # <<>>)
    /\ StmtsOfKind("COMMIT") # <<>> <=> ~InsertFailed

\* C20 (amended): BEGIN is the first statement and the only BEGIN; every
\* INSERT directly follows a BEGIN or an INSERT that succeeded, and carries
\* the records after those of the INSERT before it; COMMIT is issued at most
\* once, directly after a successful BEGIN or INSERT, hence only when every
\* INSERT succeeded; ROLLBACK is issued exactly when BEGIN, an INSERT or the
\* COMMIT failed, directly after that statement and as the last statement of
\* the call, so that a failed COMMIT is followed by a ROLLBACK.
C20_StatementOrder ==
  /\ stmts # <<>> => stmts[1].kind = "BEGIN"
  /\ Len(StmtsOfKind("BEGIN")) <= 1
  /\ Len(StmtsOfKind("COMMIT")) <= 1
  /\ Len(StmtsOfKind("ROLLBACK")) <= 1
  /\ \A k \in 1..Len(stmts) :
       LET st == stmts[k] IN
       /\ st.kind = "INSERT" =>
            /\ k > 1 /\ stmts[k - 1].kind \in {"BEGIN", "INSERT"} /\ stmts[k - 1].ok
            /\ (stmts[k - 1].kind = "INSERT" /\ st.rows # <<>>) =>
                 st.rows[1] = stmts[k - 1].rows[Len(stmts[k - 1].rows)] + 1
       /\ st.kind = "COMMIT" =>
            /\ k > 1 /\ stmts[k - 1].kind \in {"BEGIN", "INSERT"} /\ stmts[k - 1].ok
            /\ ~InsertFailed
       /\ st.kind = "ROLLBACK" =>
            /\ k = Len(stmts)
            /\ k > 1 /\ stmts[k - 1].kind \in {"BEGIN", "INSERT", "COMMIT"}
            /\ ~stmts[k - 1].ok
       /\ (st.kind \in {"BEGIN", "INSERT", "COMMIT"} /\ ~st.ok) =>
            /\ k < Len(stmts) => stmts[k + 1].kind = "ROLLBACK"
            /\ k = Len(stmts) => pc = "rollback"

\* C20 witness: BEGIN, an INSERT, a COMMIT that failed and the ROLLBACK that
\* followed it.
C20_Witness ==
  /\ Ended
  /\ KindsOf(stmts) = <<"BEGIN", "INSERT", "COMMIT", "ROLLBACK">>
  /\ ~stmts[3].ok

\* The value of the last column of the row whose header is h.
ColumnValue(hs, vs, h) ==
  vs[CHOOSE k \in 1..Len(hs) : hs[k] = h /\ \A j \in (k + 1)..Len(hs) : hs[j] # h]

\* C21 (as claimed): the record of a row under headers that pass
\* validateHeaders has a firstName and a lastName leaf under name and an age
\* leaf at top level, and the name prepareUserData projects is the row's
\* firstName and lastName columns joined by a space and trimmed.
C21_RequiredLeaves ==
  (fnRet # <<>> /\ missingHeaders(fnArgs.headers) = <<>>) =>
    /\ {<<<<"name">>, <<"firstName">>>>, <<<<"name">>, <<"lastName">>>>, << <<"age">> >>}
         \subseteq Leaves(fnArgs.user)
    /\ fnRet[1].name =
         Trim(ColumnValue(fnArgs.headers, fnArgs.values, requiredHeaders[1])
              \o <<Space>>
              \o ColumnValue(fnArgs.headers, fnArgs.values, requiredHeaders[2]))

\* batchInsertUsers has returned after a COMMIT that succeeded, or thrown
\* after a ROLLBACK.
BatchReturned ==
  \/ pc = "report" /\ stmts[Len(stmts)].kind = "COMMIT" /\ stmts[Len(stmts)].ok
  \/ /\ pc = "idle" /\ stmts[Len(stmts)].kind = "ROLLBACK"
     /\ response.status = "error"

\* C22: for every BATCH_SIZE setting (positive, zero, negative, not a
\* number) the chunk size used is never zero, the chunk loop runs at most n
\* times for n records, a call that has left its statements behind has
\* returned after COMMIT or thrown after ROLLBACK, and every call does so
\* eventually.
C22_Terminates ==
  /\ [](/\ batchSize # 0
        /\ Len(StmtsOfKind("INSERT")) <= Len(users)
        /\ pc \in {"report", "idle"} => BatchReturned)
  /\ <>BatchReturned

\* C22 witness: with BATCH_SIZE = -1 and two records the loop wrote the
\* first record, then an empty chunk, which the database refused, and the
\* call ended in ROLLBACK.
C22_Witness ==
  /\ env.BATCH_SIZE = <<"-", "1">> /\ Len(users) = 2
  /\ pc = "idle"
  /\ KindsOf(stmts) = <<"BEGIN", "INSERT", "INSERT", "ROLLBACK">>
  /\ stmts[2].rows = <<1>> /\ stmts[3].rows = <<>>

====
